---- MODULE Spec2Model ----
(***************************************************************************)
(* pdns-nodesdk: the resource modules (Servers, Zones, Cryptokeys,         *)
(* Metadata, TSIGKeys, Autoprimaries, Searching, Statistics, Cache) as a   *)
(* state machine over the ApiClient they are given.  A string is a         *)
(* sequence of one-character strings, so that template substitution,      *)
(* encodeURIComponent and URLSearchParams work character by character.     *)
(* A JSON value is its sequence of tokens.                                 *)
(***************************************************************************)
EXTENDS Integers, Sequences, FiniteSets, TLC

(***************************************************************************)
(* Bounds of the model.                                                    *)
(***************************************************************************)
MaxLen == 2        \* longest free-text value (search query, flush domain, statistic)

(***************************************************************************)
(* The literals of the path templates.                                     *)
(***************************************************************************)
P_servers == <<"/","s","e","r","v","e","r","s">>
P_zones == <<"/","z","o","n","e","s">>
P_cryptokeys == <<"/","c","r","y","p","t","o","k","e","y","s">>
P_metadata == <<"/","m","e","t","a","d","a","t","a">>
P_tsigkeys == <<"/","t","s","i","g","k","e","y","s">>
P_autoprimaries == <<"/","a","u","t","o","p","r","i","m","a","r","i","e","s">>
P_searchData == <<"/","s","e","a","r","c","h","-","d","a","t","a","?">>
P_statistics == <<"/","s","t","a","t","i","s","t","i","c","s">>
P_cacheFlush == <<"/","c","a","c","h","e","/","f","l","u","s","h","?">>
P_axfrRetrieve == <<"/","a","x","f","r","-","r","e","t","r","i","e","v","e">>
P_notify == <<"/","n","o","t","i","f","y">>
P_export == <<"/","e","x","p","o","r","t">>
P_rectify == <<"/","r","e","c","t","i","f","y">>
Q_statistic == <<"s","t","a","t","i","s","t","i","c","=">>
Q_includerings == <<"i","n","c","l","u","d","e","r","i","n","g","s","=">>
Q_domain == <<"d","o","m","a","i","n","=">>
K_q == <<"q">>
K_max == <<"m","a","x">>
K_object_type == <<"o","b","j","e","c","t","_","t","y","p","e">>
Slash == <<"/">>

(***************************************************************************)
(* Characters.  CodePoint is the Unicode code point of the characters the  *)
(* model uses; letters and digits never need it.                           *)
(***************************************************************************)
Letters ==
    {"a","b","c","d","e","f","g","h","i","j","k","l","m","n","o","p","q","r",
     "s","t","u","v","w","x","y","z","A","B","C","D","E","F","G","H","I","J",
     "K","L","M","N","O","P","Q","R","S","T","U","V","W","X","Y","Z"}

DecimalDigits == <<"0","1","2","3","4","5","6","7","8","9">>

Digits == {DecimalDigits[i] : i \in 1..10}

HexDigits == <<"0","1","2","3","4","5","6","7","8","9","A","B","C","D","E","F">>

Symbols == {" ","!","#","%","&","'","(",")","*","+","-",".","/","=","?","_","~","U+00E9"}

CodePoint(c) ==
    CASE c = " " -> 32 [] c = "!" -> 33 [] c = "#" -> 35 [] c = "%" -> 37
      [] c = "&" -> 38 [] c = "'" -> 39 [] c = "(" -> 40 [] c = ")" -> 41
      [] c = "*" -> 42 [] c = "+" -> 43 [] c = "-" -> 45 [] c = "." -> 46
      [] c = "/" -> 47 [] c = "=" -> 61 [] c = "?" -> 63 [] c = "_" -> 95
      [] c = "~" -> 126 [] c = "U+00E9" -> 233

\* UTF-8 bytes of a character below U+0800
Utf8(c) ==
    LET cp == CodePoint(c)
    IN  IF cp < 128 THEN <<cp>>
        ELSE <<192 + (cp \div 64), 128 + (cp % 64)>>

PercentByte(b) == <<"%", HexDigits[(b \div 16) + 1], HexDigits[(b % 16) + 1]>>

RECURSIVE PercentBytes(_)
PercentBytes(bs) ==
    IF bs = <<>> THEN <<>> ELSE PercentByte(Head(bs)) \o PercentBytes(Tail(bs))

(***************************************************************************)
(* encodeURIComponent (ECMAScript): letters, digits and - _ . ! ~ * ' ( )  *)
(* are kept, every other character becomes the %XX of its UTF-8 bytes.     *)
(***************************************************************************)
UriUnescaped == Letters \cup Digits \cup {"-","_",".","!","~","*","'","(",")"}

RECURSIVE encodeURIComponent(_)
encodeURIComponent(s) ==
    IF s = <<>> THEN <<>>
    ELSE (IF Head(s) \in UriUnescaped THEN <<Head(s)>>
          ELSE PercentBytes(Utf8(Head(s))))
         \o encodeURIComponent(Tail(s))

(***************************************************************************)
(* URLSearchParams.prototype.toString (WHATWG application/x-www-form-      *)
(* urlencoded serializer): the space becomes +, letters, digits and        *)
(* * - . _ are kept, every other byte becomes %XX; the pairs are           *)
(* name=value joined by &.                                                 *)
(***************************************************************************)
FormUnescaped == Letters \cup Digits \cup {"*","-",".","_"}

FormSerializeString_raw(s) == s

\* the space percent-encoded, as encodeURIComponent writes it
FormSerializeString_uri(s) == encodeURIComponent(s)

RECURSIVE FormSerializeString(_)
FormSerializeString(s) ==
    IF s = <<>> THEN <<>>
    ELSE (IF Head(s) = " " THEN <<"+">>
          ELSE IF Head(s) \in FormUnescaped THEN <<Head(s)>>
          ELSE PercentBytes(Utf8(Head(s))))
         \o FormSerializeString(Tail(s))

RECURSIVE URLSearchParams_toString(_)
URLSearchParams_toString(pairs) ==
    IF pairs = <<>> THEN <<>>
    ELSE FormSerializeString(Head(pairs)[1]) \o <<"=">>
         \o FormSerializeString(Head(pairs)[2])
         \o (IF Len(pairs) > 1 THEN <<"&">> ELSE <<>>)
         \o URLSearchParams_toString(Tail(pairs))

(***************************************************************************)
(* Number.prototype.toString and the `${number}` of a template literal,    *)
(* for the natural numbers.                                                *)
(***************************************************************************)
RECURSIVE NumberToString(_)
NumberToString(n) ==
    IF n < 10 THEN <<DecimalDigits[n + 1]>>
    ELSE NumberToString(n \div 10) \o <<DecimalDigits[(n % 10) + 1]>>

\* Boolean in a template literal
BooleanToString(b) == IF b THEN <<"t","r","u","e">> ELSE <<"f","a","l","s","e">>

\* Array.prototype.join
RECURSIVE Join(_, _)
Join(parts, sep) ==
    IF parts = <<>> THEN <<>>
    ELSE IF Len(parts) = 1 THEN Head(parts)
    ELSE Head(parts) \o sep \o Join(Tail(parts), sep)

(***************************************************************************)
(* Optional arguments: an argument that was left out is undefined.         *)
(***************************************************************************)
Some(v) == [set |-> TRUE, v |-> v]
UndefinedString == [set |-> FALSE, v |-> <<>>]
UndefinedNumber == [set |-> FALSE, v |-> 0]
UndefinedBoolean == [set |-> FALSE, v |-> FALSE]

Default_ignored(opt, dflt) == opt.v

\* a parameter default: `param = dflt`
Default(opt, dflt) == IF opt.set THEN opt.v ELSE dflt

(***************************************************************************)
(* JSON values as token sequences.                                         *)
(***************************************************************************)
JUndefined == <<"undefined">>
JNull == <<"null">>
NoBody == <<>>      \* the call has no body argument (get, delete)

(***************************************************************************)
(* The arguments the callers pass.                                         *)
(***************************************************************************)
ServerIds ==
    {<<"l","o","c","a","l","h","o","s","t">>, <<"S","r","v"," ","1">>, <<"a","/","b","?","c">>,
     <<"l","o","c","a","l","h","o","s","t","/","z","o","n","e","s">>}

ZoneIds ==
    {<<"e","x","a","m","p","l","e",".","o","r","g",".">>, <<"E","X","A","M","P","L","E",".","o","r","g",".">>, <<"z","%","2","E",".">>, <<" ","a","."," ">>,
     <<"e","x","a","m","p","l","e",".","o","r","g",".","/","e","x","p","o","r","t">>}

KeyIds == {0, 7, 123}

MetadataKinds == {<<"A","L","L","O","W","-","A","X","F","R","-","F","R","O","M">>, <<"X"," ","y">>}

TsigKeyIds == {<<"m","y","t","s","i","g","k","e","y",".">>, <<"K","+","1",".">>}

Ips == {<<"1","9","2",".","0",".","2",".","1">>, <<"2","0","0","1",":","d","b","8",":",":","1">>}

Nameservers == {<<"n","s",".","e","x","a","m","p","l","e",".","c","o","m">>, <<"N","S",".","e","x","a","m","p","l","e",".","c","o","m",".">>}

FreeAlphabet == {"a", "*", " ", "&", "=", "#", "?", "%", "+", "U+00E9"}

FreeTexts == UNION {[1..n -> FreeAlphabet] : n \in 0..MaxLen}

CacheHits == <<"c","a","c","h","e","-","h","i","t","s">>

InjectedStatistic == <<"x","&","i","n","c","l","u","d","e","r","i","n","g","s","=","t","r","u","e">>

StatisticOptions ==
    {UndefinedString} \cup {Some(s) : s \in FreeTexts \cup {CacheHits, InjectedStatistic}}

IncluderingsOptions == {UndefinedBoolean, Some(TRUE), Some(FALSE)}

MaxResultsOptions == {UndefinedNumber, Some(5), Some(100)}

ObjectTypeOptions == {UndefinedString, Some(<<"z","o","n","e">>), Some(<<"c","o","m","m","e","n","t">>)}

Payloads ==
    { <<"{", "}">>,
      <<"{", "name", ":", "example.org.", ",", "kind", ":", "Native", "}">> }

MetadataEntries ==
    { <<"[", "]">>,
      <<"[", "{", "kind", ":", "NOTIFY-TO", ",", "metadata", ":", "[", "192.0.2.2", "]", "}", "]">> }

MetadataValues == { <<"[", "]">>, <<"[", "192.0.2.3", "]">> }

\* what the ApiClient may answer with
Values ==
    { JUndefined, JNull, <<"[", "]">>,
      <<"{", "count", ":", "1", ",", "result", ":", "Flushed cache", "}">> }

Errors == {"API request failed", "Request failed"}

(***************************************************************************)
(* State.                                                                  *)
(***************************************************************************)
VARIABLES
    pc,         \* "idle", "awaiting", "answered", "settled"
    call,       \* the method called and its arguments
    log,        \* the calls the ApiClient has received, in order
    transport,  \* the promise the ApiClient returned
    outcome,    \* the promise the method returned
    clients,    \* the ApiClient objects, in order of construction
    sdks,       \* the objects holding one instance of each module
    via,        \* which of sdks the call in progress is made on
    wire,       \* the HTTP requests the ApiClient of the call has sent
    response,   \* how the HTTP exchange of the call ended
    suspended,  \* calls in flight beside the one in focus
    memo,       \* the request each probe call made first, and the history then
    server,     \* the zone and the cryptokey the remote server holds
    seen        \* the zone and the cryptokey as the calls that resolved left them

vars == <<pc, call, log, transport, outcome, clients, sdks, via, wire, response,
          suspended, memo, server, seen>>

\* a promise; a rejection carries the error: its type (kind), message,
\* HTTP status (0: none), raw response text and underlying cause
Pending ==
    [state |-> "pending", value |-> <<>>, error |-> "", kind |-> "", status |-> 0,
     body |-> <<>>, cause |-> ""]

Resolved(v) == [Pending EXCEPT !.state = "resolved", !.value = v]

\* new Error(e)
Rejected(e) == [Pending EXCEPT !.state = "rejected", !.error = e, !.kind = "Error"]

NoArgs ==
    [method |-> "", serverId |-> <<>>, zoneId |-> <<>>, keyId |-> 0,
     metadataKind |-> <<>>, tsigKeyId |-> <<>>, ip |-> <<>>, nameserver |-> <<>>,
     payload |-> NoBody, query |-> <<>>, maxResults |-> UndefinedNumber,
     objectType |-> UndefinedString, statistic |-> UndefinedString,
     includerings |-> UndefinedBoolean, domain |-> <<>>]

ModuleNames ==
    {"servers", "zones", "cryptokeys", "metadata", "tsigkeys", "autoprimaries",
     "searching", "statistics", "cache"}

\* the module a method belongs to
ModuleOf(method) ==
    CASE method \in {"listServers", "getServer"} -> "servers"
      [] method \in {"listZones", "getZone", "createZone", "deleteZone", "updateZoneRRsets",
                     "modifyZone", "retrieveSlaveZone", "sendNotify", "exportZone",
                     "rectifyZone"} -> "zones"
      [] method \in {"listKeys", "createKey", "getKey", "updateKey", "deleteKey"} -> "cryptokeys"
      [] method \in {"listMetadata", "createMetadata", "getMetadata", "updateMetadata",
                     "deleteMetadata"} -> "metadata"
      [] method \in {"listTSIGKeys", "createTSIGKey", "getTSIGKey", "updateTSIGKey",
                     "deleteTSIGKey"} -> "tsigkeys"
      [] method \in {"listAutoprimaries", "addAutoprimary", "deleteAutoprimary"} -> "autoprimaries"
      [] method = "searchData" -> "searching"
      [] method = "getStatistics" -> "statistics"
      [] method = "flushCache" -> "cache"

\* `this.client` of the module instance the call in progress is made on
ThisClient == sdks[via][ModuleOf(call.method)]

NoResponse == [origin |-> "none", status |-> 0, text |-> <<>>, cause |-> ""]

MockApiKey == <<"m","o","c","k","-","a","p","i","-","k","e","y">>

MockApiUrl == <<"h","t","t","p",":","/","/","m","o","c","k","-","a","p","i","-","u","r","l">>

\* jest.mock: new ApiClient(...) is an automock
MockApiClient == [mocked |-> TRUE, apiKey |-> MockApiKey, baseUrl |-> MockApiUrl]

\* the modules a unit test constructs over the one mocked ApiClient
TestModules ==
    [client |-> 1, servers |-> 1, zones |-> 1, cryptokeys |-> 1, metadata |-> 1,
     tsigkeys |-> 1, autoprimaries |-> 1, searching |-> 1, statistics |-> 1, cache |-> 1,
     args |-> [apiKey |-> MockApiKey, apiUrl |-> MockApiUrl]]

\* nothing remembered of earlier calls
NoMemo ==
    [set |-> FALSE, call |-> NoArgs, request |-> [verb |-> "", path |-> <<>>, body |-> <<>>],
     failed |-> FALSE, others |-> FALSE]

InitCall ==
    /\ pc = "idle"
    /\ call = NoArgs
    /\ log = <<>>
    /\ transport = Pending
    /\ outcome = Pending
    /\ via = 0
    /\ wire = <<>>
    /\ response = NoResponse
    /\ suspended = <<>>

\* no remote server is part of the run
NoServer ==
    [zone |-> [exists |-> FALSE, data |-> <<>>, rrsets |-> <<>>],
     key |-> [exists |-> FALSE, data |-> <<>>]]

Init ==
    /\ InitCall
    /\ clients = <<MockApiClient>>
    /\ sdks = <<TestModules>>
    /\ memo = NoMemo
    /\ server = NoServer
    /\ seen = NoServer

\* a method is entered with its arguments; its promise is pending
Enter(c) ==
    /\ pc = "idle"
    /\ pc' = "awaiting"
    /\ call' = c
    /\ outcome' = Pending
    /\ via' \in 1..Len(sdks)
    /\ UNCHANGED <<clients, sdks, response, suspended, memo, server, seen>>

(***************************************************************************)
(* The ApiClient the modules are constructed with.  Each verb records the  *)
(* call and returns a pending promise; an ApiClient that is no mock sends  *)
(* the HTTP request.                                                       *)
(***************************************************************************)
Request(verb, path, body) == [verb |-> verb, path |-> path, body |-> body]

RECURSIVE StripTrailingSlashes(_)
StripTrailingSlashes(s) ==
    IF s # <<>> /\ s[Len(s)] = "/" THEN StripTrailingSlashes(SubSeq(s, 1, Len(s) - 1)) ELSE s

RECURSIVE StripLeadingSlashes(_)
StripLeadingSlashes(s) ==
    IF s # <<>> /\ Head(s) = "/" THEN StripLeadingSlashes(Tail(s)) ELSE s

\* the base endpoint and the path, joined by one slash
JoinUrl(baseUrl, path) == StripTrailingSlashes(baseUrl) \o Slash \o StripLeadingSlashes(path)

\* the HTTP request of one call: the credential header on every request,
\* the JSON content type when there is a body
HttpRequest(client, req) ==
    [verb |-> req.verb,
     url |-> JoinUrl(client.baseUrl, req.path),
     credential |-> client.apiKey,
     contentType |-> IF req.body # NoBody THEN "application/json" ELSE "",
     body |-> req.body]

\* `this.client` at the call being entered
EnteredClient == clients[sdks[via'][ModuleOf(call'.method)]]

Transmit(req) ==
    wire' = IF EnteredClient.mocked THEN wire ELSE Append(wire, HttpRequest(EnteredClient, req))

client_get(path) ==
    /\ log' = Append(log, Request("GET", path, NoBody))
    /\ transport' = Pending
    /\ Transmit(Request("GET", path, NoBody))

client_delete(path) ==
    /\ log' = Append(log, Request("DELETE", path, NoBody))
    /\ transport' = Pending
    /\ Transmit(Request("DELETE", path, NoBody))

client_post(path, body) ==
    /\ log' = Append(log, Request("POST", path, body))
    /\ transport' = Pending
    /\ Transmit(Request("POST", path, body))

client_put(path, body) ==
    /\ log' = Append(log, Request("PUT", path, body))
    /\ transport' = Pending
    /\ Transmit(Request("PUT", path, body))

client_patch(path, body) ==
    /\ log' = Append(log, Request("PATCH", path, body))
    /\ transport' = Pending
    /\ Transmit(Request("PATCH", path, body))

(***************************************************************************)
(* Servers                                                                 *)
(***************************************************************************)
listServers ==
    /\ Enter([NoArgs EXCEPT !.method = "listServers"])
    /\ client_get(P_servers)

\* the identifier percent-encoded
getServer_encoded ==
    \E serverId \in ServerIds :
        /\ Enter([NoArgs EXCEPT !.method = "getServer", !.serverId = serverId])
        /\ client_get(P_servers \o Slash \o encodeURIComponent(serverId))

getServer ==
    \E serverId \in ServerIds :
        /\ Enter([NoArgs EXCEPT !.method = "getServer", !.serverId = serverId])
        /\ client_get(P_servers \o Slash \o serverId)

(***************************************************************************)
(* Zones                                                                   *)
(***************************************************************************)
listZones ==
    \E serverId \in ServerIds :
        /\ Enter([NoArgs EXCEPT !.method = "listZones", !.serverId = serverId])
        /\ client_get(P_servers \o Slash \o serverId \o P_zones)

getZone ==
    \E serverId \in ServerIds, zoneId \in ZoneIds :
        /\ Enter([NoArgs EXCEPT !.method = "getZone", !.serverId = serverId, !.zoneId = zoneId])
        /\ client_get(P_servers \o Slash \o serverId \o P_zones \o Slash \o zoneId)

\* the payload is not passed on
createZone_noBody ==
    \E serverId \in ServerIds, zoneData \in Payloads :
        /\ Enter([NoArgs EXCEPT !.method = "createZone", !.serverId = serverId, !.payload = zoneData])
        /\ client_post(P_servers \o Slash \o serverId \o P_zones, NoBody)

createZone ==
    \E serverId \in ServerIds, zoneData \in Payloads :
        /\ Enter([NoArgs EXCEPT !.method = "createZone", !.serverId = serverId, !.payload = zoneData])
        /\ client_post(P_servers \o Slash \o serverId \o P_zones, zoneData)

deleteZone ==
    \E serverId \in ServerIds, zoneId \in ZoneIds :
        /\ Enter([NoArgs EXCEPT !.method = "deleteZone", !.serverId = serverId, !.zoneId = zoneId])
        /\ client_delete(P_servers \o Slash \o serverId \o P_zones \o Slash \o zoneId)

updateZoneRRsets_put ==
    \E serverId \in ServerIds, zoneId \in ZoneIds, rrsetData \in Payloads :
        /\ Enter([NoArgs EXCEPT !.method = "updateZoneRRsets", !.serverId = serverId, !.zoneId = zoneId, !.payload = rrsetData])
        /\ client_put(P_servers \o Slash \o serverId \o P_zones \o Slash \o zoneId, rrsetData)

updateZoneRRsets ==
    \E serverId \in ServerIds, zoneId \in ZoneIds, rrsetData \in Payloads :
        /\ Enter([NoArgs EXCEPT !.method = "updateZoneRRsets", !.serverId = serverId, !.zoneId = zoneId, !.payload = rrsetData])
        /\ client_patch(P_servers \o Slash \o serverId \o P_zones \o Slash \o zoneId, rrsetData)

modifyZone ==
    \E serverId \in ServerIds, zoneId \in ZoneIds, zoneData \in Payloads :
        /\ Enter([NoArgs EXCEPT !.method = "modifyZone", !.serverId = serverId, !.zoneId = zoneId, !.payload = zoneData])
        /\ client_put(P_servers \o Slash \o serverId \o P_zones \o Slash \o zoneId, zoneData)

retrieveSlaveZone ==
    \E serverId \in ServerIds, zoneId \in ZoneIds, body \in Payloads :
        /\ Enter([NoArgs EXCEPT !.method = "retrieveSlaveZone", !.serverId = serverId, !.zoneId = zoneId, !.payload = body])
        /\ client_put(P_servers \o Slash \o serverId \o P_zones \o Slash \o zoneId \o P_axfrRetrieve, body)

sendNotify ==
    \E serverId \in ServerIds, zoneId \in ZoneIds, body \in Payloads :
        /\ Enter([NoArgs EXCEPT !.method = "sendNotify", !.serverId = serverId, !.zoneId = zoneId, !.payload = body])
        /\ client_put(P_servers \o Slash \o serverId \o P_zones \o Slash \o zoneId \o P_notify, body)

exportZone ==
    \E serverId \in ServerIds, zoneId \in ZoneIds :
        /\ Enter([NoArgs EXCEPT !.method = "exportZone", !.serverId = serverId, !.zoneId = zoneId])
        /\ client_get(P_servers \o Slash \o serverId \o P_zones \o Slash \o zoneId \o P_export)

rectifyZone ==
    \E serverId \in ServerIds, zoneId \in ZoneIds, body \in Payloads :
        /\ Enter([NoArgs EXCEPT !.method = "rectifyZone", !.serverId = serverId, !.zoneId = zoneId, !.payload = body])
        /\ client_put(P_servers \o Slash \o serverId \o P_zones \o Slash \o zoneId \o P_rectify, body)

(***************************************************************************)
(* Cryptokeys                                                              *)
(***************************************************************************)
listKeys ==
    \E serverId \in ServerIds, zoneId \in ZoneIds :
        /\ Enter([NoArgs EXCEPT !.method = "listKeys", !.serverId = serverId, !.zoneId = zoneId])
        /\ client_get(P_servers \o Slash \o serverId \o P_zones \o Slash \o zoneId \o P_cryptokeys)

createKey ==
    \E serverId \in ServerIds, zoneId \in ZoneIds, keyData \in Payloads :
        /\ Enter([NoArgs EXCEPT !.method = "createKey", !.serverId = serverId, !.zoneId = zoneId, !.payload = keyData])
        /\ client_post(P_servers \o Slash \o serverId \o P_zones \o Slash \o zoneId \o P_cryptokeys, keyData)

getKey_encoded ==
    \E serverId \in ServerIds, zoneId \in ZoneIds, keyId \in KeyIds :
        /\ Enter([NoArgs EXCEPT !.method = "getKey", !.serverId = serverId, !.zoneId = zoneId, !.keyId = keyId])
        /\ client_get(P_servers \o Slash \o encodeURIComponent(serverId) \o P_zones \o Slash
                      \o encodeURIComponent(zoneId) \o P_cryptokeys \o Slash \o NumberToString(keyId))

getKey ==
    \E serverId \in ServerIds, zoneId \in ZoneIds, keyId \in KeyIds :
        /\ Enter([NoArgs EXCEPT !.method = "getKey", !.serverId = serverId, !.zoneId = zoneId, !.keyId = keyId])
        /\ client_get(P_servers \o Slash \o serverId \o P_zones \o Slash \o zoneId \o P_cryptokeys \o Slash \o NumberToString(keyId))

updateKey ==
    \E serverId \in ServerIds, zoneId \in ZoneIds, keyId \in KeyIds, keyData \in Payloads :
        /\ Enter([NoArgs EXCEPT !.method = "updateKey", !.serverId = serverId, !.zoneId = zoneId, !.keyId = keyId, !.payload = keyData])
        /\ client_put(P_servers \o Slash \o serverId \o P_zones \o Slash \o zoneId \o P_cryptokeys \o Slash \o NumberToString(keyId), keyData)

deleteKey ==
    \E serverId \in ServerIds, zoneId \in ZoneIds, keyId \in KeyIds :
        /\ Enter([NoArgs EXCEPT !.method = "deleteKey", !.serverId = serverId, !.zoneId = zoneId, !.keyId = keyId])
        /\ client_delete(P_servers \o Slash \o serverId \o P_zones \o Slash \o zoneId \o P_cryptokeys \o Slash \o NumberToString(keyId))

(***************************************************************************)
(* Metadata                                                                *)
(***************************************************************************)
listMetadata ==
    \E serverId \in ServerIds, zoneId \in ZoneIds :
        /\ Enter([NoArgs EXCEPT !.method = "listMetadata", !.serverId = serverId, !.zoneId = zoneId])
        /\ client_get(P_servers \o Slash \o serverId \o P_zones \o Slash \o zoneId \o P_metadata)

createMetadata ==
    \E serverId \in ServerIds, zoneId \in ZoneIds, metadataEntries \in MetadataEntries :
        /\ Enter([NoArgs EXCEPT !.method = "createMetadata", !.serverId = serverId, !.zoneId = zoneId, !.payload = metadataEntries])
        /\ client_post(P_servers \o Slash \o serverId \o P_zones \o Slash \o zoneId \o P_metadata, metadataEntries)

getMetadata ==
    \E serverId \in ServerIds, zoneId \in ZoneIds, metadataKind \in MetadataKinds :
        /\ Enter([NoArgs EXCEPT !.method = "getMetadata", !.serverId = serverId, !.zoneId = zoneId, !.metadataKind = metadataKind])
        /\ client_get(P_servers \o Slash \o serverId \o P_zones \o Slash \o zoneId \o P_metadata \o Slash \o metadataKind)

updateMetadata ==
    \E serverId \in ServerIds, zoneId \in ZoneIds, metadataKind \in MetadataKinds, metadataValues \in MetadataValues :
        /\ Enter([NoArgs EXCEPT !.method = "updateMetadata", !.serverId = serverId, !.zoneId = zoneId, !.metadataKind = metadataKind, !.payload = metadataValues])
        /\ client_put(P_servers \o Slash \o serverId \o P_zones \o Slash \o zoneId \o P_metadata \o Slash \o metadataKind, metadataValues)

deleteMetadata ==
    \E serverId \in ServerIds, zoneId \in ZoneIds, metadataKind \in MetadataKinds :
        /\ Enter([NoArgs EXCEPT !.method = "deleteMetadata", !.serverId = serverId, !.zoneId = zoneId, !.metadataKind = metadataKind])
        /\ client_delete(P_servers \o Slash \o serverId \o P_zones \o Slash \o zoneId \o P_metadata \o Slash \o metadataKind)

(***************************************************************************)
(* TSIGKeys                                                                *)
(***************************************************************************)
listTSIGKeys ==
    \E serverId \in ServerIds :
        /\ Enter([NoArgs EXCEPT !.method = "listTSIGKeys", !.serverId = serverId])
        /\ client_get(P_servers \o Slash \o serverId \o P_tsigkeys)

\* a field of the payload is defaulted
createTSIGKey_defaulted ==
    \E serverId \in ServerIds, keyData \in Payloads :
        /\ Enter([NoArgs EXCEPT !.method = "createTSIGKey", !.serverId = serverId, !.payload = keyData])
        /\ client_post(P_servers \o Slash \o serverId \o P_tsigkeys,
                       <<"{", "algorithm", ":", "hmac-sha256", ",">> \o Tail(keyData))

createTSIGKey ==
    \E serverId \in ServerIds, keyData \in Payloads :
        /\ Enter([NoArgs EXCEPT !.method = "createTSIGKey", !.serverId = serverId, !.payload = keyData])
        /\ client_post(P_servers \o Slash \o serverId \o P_tsigkeys, keyData)

getTSIGKey ==
    \E serverId \in ServerIds, tsigKeyId \in TsigKeyIds :
        /\ Enter([NoArgs EXCEPT !.method = "getTSIGKey", !.serverId = serverId, !.tsigKeyId = tsigKeyId])
        /\ client_get(P_servers \o Slash \o serverId \o P_tsigkeys \o Slash \o tsigKeyId)

updateTSIGKey ==
    \E serverId \in ServerIds, tsigKeyId \in TsigKeyIds, keyData \in Payloads :
        /\ Enter([NoArgs EXCEPT !.method = "updateTSIGKey", !.serverId = serverId, !.tsigKeyId = tsigKeyId, !.payload = keyData])
        /\ client_put(P_servers \o Slash \o serverId \o P_tsigkeys \o Slash \o tsigKeyId, keyData)

deleteTSIGKey ==
    \E serverId \in ServerIds, tsigKeyId \in TsigKeyIds :
        /\ Enter([NoArgs EXCEPT !.method = "deleteTSIGKey", !.serverId = serverId, !.tsigKeyId = tsigKeyId])
        /\ client_delete(P_servers \o Slash \o serverId \o P_tsigkeys \o Slash \o tsigKeyId)

(***************************************************************************)
(* Autoprimaries                                                           *)
(***************************************************************************)
listAutoprimaries ==
    \E serverId \in ServerIds :
        /\ Enter([NoArgs EXCEPT !.method = "listAutoprimaries", !.serverId = serverId])
        /\ client_get(P_servers \o Slash \o serverId \o P_autoprimaries)

addAutoprimary ==
    \E serverId \in ServerIds, autoprimaryData \in Payloads :
        /\ Enter([NoArgs EXCEPT !.method = "addAutoprimary", !.serverId = serverId, !.payload = autoprimaryData])
        /\ client_post(P_servers \o Slash \o serverId \o P_autoprimaries, autoprimaryData)

deleteAutoprimary ==
    \E serverId \in ServerIds, ip \in Ips, nameserver \in Nameservers :
        /\ Enter([NoArgs EXCEPT !.method = "deleteAutoprimary", !.serverId = serverId, !.ip = ip, !.nameserver = nameserver])
        /\ client_delete(P_servers \o Slash \o serverId \o P_autoprimaries \o Slash \o ip \o Slash \o nameserver)

(***************************************************************************)
(* Searching                                                               *)
(***************************************************************************)
DefaultMaxResults == 100

DefaultObjectType == <<"a","l","l">>

searchData ==
    \E serverId \in ServerIds, query \in FreeTexts,
       maxResultsArg \in MaxResultsOptions, objectTypeArg \in ObjectTypeOptions :
        LET maxResults == Default(maxResultsArg, DefaultMaxResults)
            objectType == Default(objectTypeArg, DefaultObjectType)
            params == << <<K_q, query>>,
                         <<K_max, NumberToString(maxResults)>>,
                         <<K_object_type, objectType>> >>
        IN  /\ Enter([NoArgs EXCEPT !.method = "searchData", !.serverId = serverId,
                                    !.query = query, !.maxResults = maxResultsArg,
                                    !.objectType = objectTypeArg])
            /\ client_get(P_servers \o Slash \o serverId \o P_searchData
                          \o URLSearchParams_toString(params))

(***************************************************************************)
(* Statistics.  options?.statistic is undefined when options is left out   *)
(* and when the field is; the empty string is falsy.                       *)
(***************************************************************************)
\* if (options?.statistic !== undefined)
Truthy_defined(opt) == opt.set

Truthy(opt) == opt.set /\ opt.v # <<>>

\* queryParams kept in a field of the module, not in a local
getStatistics_sharedQueryParams ==
    \E serverId \in ServerIds, statistic \in StatisticOptions,
       includerings \in IncluderingsOptions :
        LET queryParams0 == IF memo.set THEN <<Q_includerings \o BooleanToString(TRUE)>> ELSE <<>>
            queryParams1 ==
                IF Truthy(statistic)
                THEN Append(queryParams0, Q_statistic \o statistic.v)
                ELSE queryParams0
            queryParams ==
                IF includerings.set
                THEN Append(queryParams1, Q_includerings \o BooleanToString(includerings.v))
                ELSE queryParams1
            queryString ==
                IF Len(queryParams) > 0 THEN <<"?">> \o Join(queryParams, <<"&">>) ELSE <<>>
        IN  /\ Enter([NoArgs EXCEPT !.method = "getStatistics", !.serverId = serverId,
                                    !.statistic = statistic, !.includerings = includerings])
            /\ client_get(P_servers \o Slash \o serverId \o P_statistics \o queryString)

getStatistics ==
    \E serverId \in ServerIds, statistic \in StatisticOptions,
       includerings \in IncluderingsOptions :
        LET queryParams0 == <<>>
            queryParams1 ==
                IF Truthy(statistic)
                THEN Append(queryParams0, Q_statistic \o statistic.v)
                ELSE queryParams0
            queryParams ==
                IF includerings.set
                THEN Append(queryParams1, Q_includerings \o BooleanToString(includerings.v))
                ELSE queryParams1
            queryString ==
                IF Len(queryParams) > 0 THEN <<"?">> \o Join(queryParams, <<"&">>) ELSE <<>>
        IN  /\ Enter([NoArgs EXCEPT !.method = "getStatistics", !.serverId = serverId,
                                    !.statistic = statistic, !.includerings = includerings])
            /\ client_get(P_servers \o Slash \o serverId \o P_statistics \o queryString)

(***************************************************************************)
(* Cache                                                                   *)
(***************************************************************************)
flushCache_emptyObject ==
    \E serverId \in ServerIds, domain \in FreeTexts :
        LET query == Q_domain \o encodeURIComponent(domain)
        IN  /\ Enter([NoArgs EXCEPT !.method = "flushCache", !.serverId = serverId,
                                    !.domain = domain])
            /\ client_put(P_servers \o Slash \o serverId \o P_cacheFlush \o query, <<"{", "}">>)

flushCache ==
    \E serverId \in ServerIds, domain \in FreeTexts :
        LET query == Q_domain \o encodeURIComponent(domain)
        IN  /\ Enter([NoArgs EXCEPT !.method = "flushCache", !.serverId = serverId,
                                    !.domain = domain])
            /\ client_put(P_servers \o Slash \o serverId \o P_cacheFlush \o query, JNull)

(***************************************************************************)
(* The ApiClient's promise settles, then the method's.  A method is        *)
(* `return this.client.verb(...)` in an async function: its promise takes  *)
(* the settlement of the promise it returns.                               *)
(***************************************************************************)
mockResolvedValueOnce ==
    /\ pc = "awaiting"
    /\ clients[ThisClient].mocked
    /\ \E v \in Values : transport' = Resolved(v)
    /\ pc' = "answered"
    /\ UNCHANGED <<call, log, outcome, clients, sdks, via, wire, response, suspended, memo, server, seen>>

mockRejectedValueOnce ==
    /\ pc = "awaiting"
    /\ clients[ThisClient].mocked
    /\ \E e \in Errors : transport' = Rejected(e)
    /\ pc' = "answered"
    /\ UNCHANGED <<call, log, outcome, clients, sdks, via, wire, response, suspended, memo, server, seen>>

AsyncReturn_wrapped(promise) ==
    IF promise.state = "resolved"
    THEN Resolved(<<"{", "data", ":">> \o promise.value \o <<"}">>)
    ELSE promise

AsyncReturn_swallowed(promise) ==
    IF promise.state = "rejected" THEN Resolved(JUndefined) ELSE promise

\* catch (e) { throw new Error(e.message) }
AsyncReturn_rethrown(promise) ==
    IF promise.state = "rejected" THEN Rejected(promise.error) ELSE promise

\* catch (e) { return {} }, the error still reported
AsyncReturn_partial(promise) ==
    IF promise.state = "rejected"
    THEN [promise EXCEPT !.state = "resolved", !.value = <<"{", "}">>]
    ELSE promise

\* return (await ...).data
AsyncReturn_decoding(promise) ==
    IF promise.state = "resolved" /\ promise.value \in {JNull, JUndefined}
    THEN Rejected("Cannot read properties of null")
    ELSE promise

\* await without return
AsyncReturn_void(promise) ==
    IF promise.state = "resolved" THEN Resolved(JUndefined) ELSE promise

\* return result.length ? result : null
AsyncReturn_emptyToNull(promise) ==
    IF promise.state = "resolved" /\ promise.value = <<"[", "]">>
    THEN Resolved(JNull)
    ELSE promise

\* catch (e) { if (e.status === 404) return null; throw e }
AsyncReturn_nullOn404(promise) ==
    IF promise.state = "rejected" /\ promise.status = 404 THEN Resolved(JNull) ELSE promise

\* this.client.put(...) neither returned nor awaited
AsyncReturn_notAwaited(promise) == Resolved(JUndefined)

AsyncReturn(promise) == promise

\* a rejection fails the calls still in flight as well
MethodSettles_failsOthers ==
    /\ pc = "answered"
    /\ outcome' = AsyncReturn(transport)
    /\ pc' = "settled"
    /\ suspended' =
          IF transport.state = "rejected"
          THEN [i \in 1..Len(suspended) |->
                   [suspended[i] EXCEPT !.pc = "answered", !.transport = transport]]
          ELSE suspended
    /\ UNCHANGED <<call, log, transport, clients, sdks, via, wire, response, memo, server, seen>>

\* a rejection is never handed on: the method's promise stays pending
MethodSettles_hangsOnRejection ==
    /\ pc = "answered"
    /\ transport.state = "resolved"
    /\ outcome' = AsyncReturn(transport)
    /\ pc' = "settled"
    /\ UNCHANGED <<call, log, transport, clients, sdks, via, wire, response, suspended, memo, server, seen>>

\* the call is made once more when the first attempt failed
MethodSettles_retry ==
    /\ pc = "answered"
    /\ outcome' = AsyncReturn(transport)
    /\ pc' = "settled"
    /\ IF transport.state = "rejected"
       THEN log' = log \o log /\ wire' = wire \o wire
       ELSE UNCHANGED <<log, wire>>
    /\ UNCHANGED <<call, transport, clients, sdks, via, response, suspended, memo, server, seen>>

MethodSettles ==
    /\ pc = "answered"
    /\ outcome' = AsyncReturn(transport)
    /\ pc' = "settled"
    /\ UNCHANGED <<call, log, transport, clients, sdks, via, wire, response, suspended, memo, server, seen>>

\* afterEach of the unit tests: the next call starts from a clean ApiClient
clearAllMocks ==
    /\ pc = "settled"
    /\ pc' = "idle"
    /\ call' = NoArgs
    /\ log' = <<>>
    /\ transport' = Pending
    /\ outcome' = Pending
    /\ via' = 0
    /\ UNCHANGED <<clients, sdks, wire, response, suspended, memo, server, seen>>

Next ==
    \/ listServers \/ getServer
    \/ listZones \/ getZone \/ createZone \/ deleteZone \/ updateZoneRRsets
    \/ modifyZone \/ retrieveSlaveZone \/ sendNotify \/ exportZone \/ rectifyZone
    \/ listKeys \/ createKey \/ getKey \/ updateKey \/ deleteKey
    \/ listMetadata \/ createMetadata \/ getMetadata \/ updateMetadata \/ deleteMetadata
    \/ listTSIGKeys \/ createTSIGKey \/ getTSIGKey \/ updateTSIGKey \/ deleteTSIGKey
    \/ listAutoprimaries \/ addAutoprimary \/ deleteAutoprimary
    \/ searchData \/ getStatistics \/ flushCache
    \/ mockResolvedValueOnce \/ mockRejectedValueOnce \/ MethodSettles
    \/ clearAllMocks

Spec == Init /\ [][Next]_vars

TypeOK ==
    /\ pc \in {"idle", "awaiting", "answered", "settled"}
    /\ Len(log) <= 1

(***************************************************************************)
(* The facade.  PdnsNodeSDK constructs one ApiClient and the nine modules  *)
(* over it.                                                                *)
(***************************************************************************)
MaxSdks == 2

ApiKeyA == <<"k","e","y","-","A">>

ApiKeyB == <<"k","e","y","-","B">>

ApiUrlA == <<"h","t","t","p",":","/","/","l","o","c","a","l","h","o","s","t",":","8","0","8","1","/","a","p","i","/","v","1","/">>

ApiUrlB == <<"h","t","t","p",":","/","/","n","s","2",":","8","0","8","1","/","a","p","i","/","v","1">>

\* the (apiKey, apiUrl) pairs facades are constructed with
ConstructorArgs ==
    { [apiKey |-> ApiKeyA, apiUrl |-> ApiUrlA],
      [apiKey |-> ApiKeyB, apiUrl |-> ApiUrlB],
      [apiKey |-> ApiKeyA, apiUrl |-> ApiUrlB] }

\* new ApiClient(apiKey, apiUrl)
ApiClient_new(apiKey, apiUrl) == [mocked |-> FALSE, apiKey |-> apiKey, baseUrl |-> apiUrl]

Construct(newClients, facade) ==
    /\ Len(sdks) < MaxSdks
    /\ clients' = clients \o newClients
    /\ sdks' = Append(sdks, facade)
    /\ UNCHANGED <<pc, call, log, transport, outcome, via, wire, response, suspended, memo, server, seen>>

\* the facade whose modules hold client c, but for cache, which holds d
Facade(c, d, args) ==
    [client |-> c, servers |-> c, zones |-> c, cryptokeys |-> c, metadata |-> c,
     tsigkeys |-> c, autoprimaries |-> c, searching |-> c, statistics |-> c, cache |-> d,
     args |-> args]

PdnsNodeSDK_ownCacheClient ==
    \E args \in ConstructorArgs :
        LET c == Len(clients) + 1
            client == ApiClient_new(args.apiKey, args.apiUrl)
        IN  Construct(<<client, client>>, Facade(c, c + 1, args))

PdnsNodeSDK_sharedClient ==
    \E args \in ConstructorArgs :
        IF clients = <<>>
        THEN Construct(<<ApiClient_new(args.apiKey, args.apiUrl)>>, Facade(1, 1, args))
        ELSE Construct(<<>>, Facade(1, 1, args))

PdnsNodeSDK_swappedArgs ==
    \E args \in ConstructorArgs :
        LET c == Len(clients) + 1
        IN  Construct(<<ApiClient_new(args.apiUrl, args.apiKey)>>, Facade(c, c, args))

PdnsNodeSDK ==
    \E args \in ConstructorArgs :
        LET c == Len(clients) + 1
        IN  Construct(<<ApiClient_new(args.apiKey, args.apiUrl)>>, Facade(c, c, args))

(***************************************************************************)
(* The ApiClient's handling of the HTTP exchange.                          *)
(***************************************************************************)
Quote == "U+0022"

Statuses == {200, 204, 404}

T_list == <<"[", "]">>

T_object == <<"{", Quote, "error", Quote, ":", Quote, "Not Found", Quote, "}">>

T_plain == <<"Not Found">>

T_truncated == <<"{", Quote, "error", Quote, ":">>

\* the response texts a server may send with a status
ResponseTexts(status) ==
    IF status = 204 THEN { <<>> } ELSE { <<>>, T_list, T_object, T_plain, T_truncated }

NetworkCauses == {"ECONNREFUSED"}

\* what a call resolves with when the response has no body
NoValue == JNull

SyntaxError == [ok |-> FALSE, next |-> 0, value |-> <<>>]

Parsed(next, value) == [ok |-> TRUE, next |-> next, value |-> value]

JSONLiterals == {"true", "false", "null", "0", "1"}

ParseString(t, i) ==
    IF i + 2 <= Len(t) /\ t[i] = Quote /\ t[i + 1] # Quote /\ t[i + 2] = Quote
    THEN Parsed(i + 3, <<t[i + 1]>>)
    ELSE SyntaxError

RECURSIVE ParseValue(_, _)
RECURSIVE ParseElements(_, _, _)
RECURSIVE ParseMembers(_, _, _)

ParseValue(t, i) ==
    IF i > Len(t) THEN SyntaxError
    ELSE IF t[i] = Quote THEN ParseString(t, i)
    ELSE IF t[i] \in JSONLiterals THEN Parsed(i + 1, <<t[i]>>)
    ELSE IF t[i] = "[" THEN
        IF i + 1 <= Len(t) /\ t[i + 1] = "]"
        THEN Parsed(i + 2, <<"[", "]">>)
        ELSE ParseElements(t, i + 1, <<"[">>)
    ELSE IF t[i] = "{" THEN
        IF i + 1 <= Len(t) /\ t[i + 1] = "}"
        THEN Parsed(i + 2, <<"{", "}">>)
        ELSE ParseMembers(t, i + 1, <<"{">>)
    ELSE SyntaxError

ParseElements(t, i, acc) ==
    LET v == ParseValue(t, i)
    IN  IF ~v.ok \/ v.next > Len(t) THEN SyntaxError
        ELSE IF t[v.next] = "," THEN ParseElements(t, v.next + 1, acc \o v.value \o <<",">>)
        ELSE IF t[v.next] = "]" THEN Parsed(v.next + 1, acc \o v.value \o <<"]">>)
        ELSE SyntaxError

ParseMembers(t, i, acc) ==
    LET k == ParseString(t, i)
    IN  IF ~k.ok \/ k.next > Len(t) \/ t[k.next] # ":" THEN SyntaxError
        ELSE LET v == ParseValue(t, k.next + 1)
                 member == acc \o k.value \o <<":">> \o v.value
             IN  IF ~v.ok \/ v.next > Len(t) THEN SyntaxError
                 ELSE IF t[v.next] = "," THEN ParseMembers(t, v.next + 1, member \o <<",">>)
                 ELSE IF t[v.next] = "}" THEN Parsed(v.next + 1, member \o <<"}">>)
                 ELSE SyntaxError

\* JSON.parse: the whole text is one value
JSONParse(t) ==
    LET v == ParseValue(t, 1)
    IN  IF v.ok /\ v.next = Len(t) + 1 THEN v ELSE SyntaxError

IsSuccess(status) == status \in 200..299

\* the one error the ApiClient fails with
ApiError(status, text, cause) ==
    [Pending EXCEPT !.state = "rejected", !.kind = "Error", !.error = "API request failed",
                    !.status = status, !.body = text, !.cause = cause]

ApiClient_handle(r) ==
    IF r.origin = "network" THEN ApiError(0, <<>>, r.cause)
    ELSE IF ~IsSuccess(r.status) THEN ApiError(r.status, r.text, "")
    ELSE IF r.text = <<>> THEN Resolved(NoValue)
    ELSE LET parsed == JSONParse(r.text)
         IN  IF parsed.ok THEN Resolved(parsed.value)
             ELSE ApiError(r.status, r.text, "SyntaxError")

Answer(r) ==
    /\ pc = "awaiting"
    /\ ~clients[ThisClient].mocked
    /\ response' = r
    /\ transport' = ApiClient_handle(r)
    /\ pc' = "answered"
    /\ UNCHANGED <<call, log, outcome, clients, sdks, via, wire, suspended, memo, server, seen>>

ServerResponds ==
    \E status \in Statuses : \E text \in ResponseTexts(status) :
        Answer([origin |-> "http", status |-> status, text |-> text, cause |-> ""])

NetworkFails ==
    \E cause \in NetworkCauses :
        Answer([origin |-> "network", status |-> 0, text |-> <<>>, cause |-> cause])

\* the caller's await returns and the caller goes on
AwaitReturns ==
    /\ pc = "settled"
    /\ pc' = "idle"
    /\ call' = NoArgs
    /\ log' = <<>>
    /\ wire' = <<>>
    /\ response' = NoResponse
    /\ transport' = Pending
    /\ outcome' = Pending
    /\ via' = 0
    /\ UNCHANGED <<clients, sdks, suspended, memo, server, seen>>

InitSdk ==
    /\ InitCall
    /\ clients = <<>>
    /\ sdks = <<>>
    /\ memo = NoMemo
    /\ server = NoServer
    /\ seen = NoServer

NextSdk ==
    \/ PdnsNodeSDK
    \/ listServers \/ createZone \/ deleteZone \/ updateZoneRRsets \/ modifyZone
    \/ deleteKey \/ deleteMetadata \/ deleteTSIGKey \/ deleteAutoprimary
    \/ ServerResponds \/ NetworkFails \/ MethodSettles \/ AwaitReturns

SpecSdk == InitSdk /\ [][NextSdk]_vars

(***************************************************************************)
(* The constructor called with a third argument, as the README shows.  It  *)
(* declares two parameters; the third goes nowhere.                        *)
(***************************************************************************)
Configs == { [headers |-> <<"Custom-Header", ":", "value">>, timeout |-> 5000] }

PdnsNodeSDK_config ==
    \E args \in ConstructorArgs, config \in Configs :
        LET c == Len(clients) + 1
        IN  Construct(<<ApiClient_new(args.apiKey, args.apiUrl)>>,
                      Facade(c, c, [apiKey |-> args.apiKey, apiUrl |-> args.apiUrl,
                                    config |-> config]))

NextConfig ==
    \/ PdnsNodeSDK_config
    \/ listServers \/ createZone
    \/ ServerResponds \/ NetworkFails \/ MethodSettles \/ AwaitReturns

SpecConfig == InitSdk /\ [][NextConfig]_vars

(***************************************************************************)
(* The event loop runs the continuation of a promise that has settled.    *)
(***************************************************************************)
NextLive ==
    \/ exportZone \/ rectifyZone
    \/ mockResolvedValueOnce \/ mockRejectedValueOnce \/ MethodSettles
    \/ clearAllMocks

SpecLive == Init /\ [][NextLive]_vars /\ WF_vars(MethodSettles)

(***************************************************************************)
(* Calls in flight together.  An async method returns its promise at the   *)
(* ApiClient call; the caller may go on to the next call before the first  *)
(* has settled, and the calls then take their steps in any order.          *)
(***************************************************************************)
MaxInFlight == 2

Context ==
    [pc |-> pc, call |-> call, log |-> log, transport |-> transport, outcome |-> outcome,
     via |-> via, wire |-> wire, response |-> response]

IdleContext ==
    [pc |-> "idle", call |-> NoArgs, log |-> <<>>, transport |-> Pending, outcome |-> Pending,
     via |-> 0, wire |-> <<>>, response |-> NoResponse]

Focus(c) ==
    /\ pc' = c.pc
    /\ call' = c.call
    /\ log' = c.log
    /\ transport' = c.transport
    /\ outcome' = c.outcome
    /\ via' = c.via
    /\ wire' = c.wire
    /\ response' = c.response

Remove(seq, i) == SubSeq(seq, 1, i - 1) \o SubSeq(seq, i + 1, Len(seq))

\* the caller does not await the call in flight and goes on
CallerGoesOn ==
    /\ pc \in {"awaiting", "answered"}
    /\ Len(suspended) < MaxInFlight - 1
    /\ suspended' = Append(suspended, Context)
    /\ Focus(IdleContext)
    /\ UNCHANGED <<clients, sdks, memo, server, seen>>

\* another call in flight takes the next step
Resume ==
    \E i \in 1..Len(suspended) :
        /\ suspended' = IF pc = "idle" THEN Remove(suspended, i)
                        ELSE [suspended EXCEPT ![i] = Context]
        /\ Focus(suspended[i])
        /\ UNCHANGED <<clients, sdks, memo, server, seen>>

NextConcurrent ==
    \/ updateZoneRRsets \/ modifyZone
    \/ mockResolvedValueOnce \/ mockRejectedValueOnce \/ MethodSettles \/ AwaitReturns
    \/ CallerGoesOn \/ Resume

SpecConcurrent == Init /\ [][NextConcurrent]_vars

(***************************************************************************)
(* Calls one after another.  The caller remembers the request one call     *)
(* made, and what has happened since.                                      *)
(***************************************************************************)
ProbeCalls ==
    { [NoArgs EXCEPT !.method = "getStatistics", !.serverId = <<"l","o","c","a","l","h","o","s","t">>,
                     !.statistic = Some(CacheHits), !.includerings = Some(TRUE)],
      [NoArgs EXCEPT !.method = "flushCache", !.serverId = <<"l","o","c","a","l","h","o","s","t">>,
                     !.domain = <<"a", "*">>],
      [NoArgs EXCEPT !.method = "listZones", !.serverId = <<"l","o","c","a","l","h","o","s","t">>],
      [NoArgs EXCEPT !.method = "exportZone", !.serverId = <<"l","o","c","a","l","h","o","s","t">>,
                     !.zoneId = <<"e","x","a","m","p","l","e",".","o","r","g",".">>] }

CallerRemembers ==
    /\ pc = "settled"
    /\ memo' = IF memo.set
               THEN [memo EXCEPT !.failed = @ \/ outcome.state = "rejected",
                                 !.others = @ \/ call # memo.call]
               ELSE IF call \in ProbeCalls
               THEN [set |-> TRUE, call |-> call, request |-> log[1], failed |-> FALSE,
                     others |-> FALSE]
               ELSE memo
    /\ Focus(IdleContext)
    /\ UNCHANGED <<clients, sdks, suspended, server, seen>>

NextHistory ==
    \/ getStatistics \/ flushCache
    \/ mockResolvedValueOnce \/ mockRejectedValueOnce \/ MethodSettles
    \/ CallerRemembers

SpecHistory == Init /\ [][NextHistory]_vars

\* the reads whose paths run into one another
NextAlias ==
    \/ getServer \/ listZones \/ getZone \/ exportZone
    \/ mockResolvedValueOnce \/ mockRejectedValueOnce \/ MethodSettles
    \/ CallerRemembers

SpecAlias == Init /\ [][NextAlias]_vars

(***************************************************************************)
(* The SDK against a server that holds one zone with one cryptokey, as     *)
(* the integration tests set it up.  The server answers from what it       *)
(* holds; a request it never gets changes nothing.                         *)
(***************************************************************************)
TestServerId == <<"l","o","c","a","l","h","o","s","t">>

TestZoneId == <<"e","x","a","m","p","l","e",".","o","r","g",".">>

TestKeyId == 7

ZoneUrl ==
    JoinUrl(ApiUrlA, P_servers \o Slash \o TestServerId \o P_zones \o Slash \o TestZoneId)

KeyUrl == ZoneUrl \o P_cryptokeys \o Slash \o NumberToString(TestKeyId)

Fixture ==
    [zone |-> [exists |-> TRUE, data |-> <<"{", "kind", ":", "Master", "}">>,
               rrsets |-> <<"[", "]">>],
     key |-> [exists |-> TRUE, data |-> <<"{", "active", ":", "true", "}">>]]

JSONPunctuation == {"{", "}", "[", "]", ":", ","}

\* JSON.stringify of a value: the strings in quotation marks
RECURSIVE JSONStringify(_)
JSONStringify(v) ==
    IF v = <<>> THEN <<>>
    ELSE (IF Head(v) \in JSONPunctuation \cup JSONLiterals THEN <<Head(v)>>
          ELSE <<Quote, Head(v), Quote>>)
         \o JSONStringify(Tail(v))

ZoneValue(zone) ==
    <<"{", "data", ":">> \o zone.data \o <<",", "rrsets", ":">> \o zone.rrsets \o <<"}">>

KeyValue(key) == <<"{", "id", ":", "7", ",", "data", ":">> \o key.data \o <<"}">>

Http(status, text) == [origin |-> "http", status |-> status, text |-> text, cause |-> ""]

NotFound == Http(404, T_object)

NoContent == Http(204, <<>>)

\* the server's answer to a request, and what the server holds afterwards
ServerHandle(req) ==
    IF req.url = ZoneUrl /\ server.zone.exists THEN
        CASE req.verb = "GET" ->
                [response |-> Http(200, JSONStringify(ZoneValue(server.zone))), server |-> server]
          [] req.verb = "PUT" ->
                [response |-> NoContent, server |-> [server EXCEPT !.zone.data = req.body]]
          [] req.verb = "PATCH" ->
                [response |-> NoContent, server |-> [server EXCEPT !.zone.rrsets = req.body]]
          [] req.verb = "DELETE" ->
                [response |-> NoContent,
                 server |-> [server EXCEPT !.zone.exists = FALSE, !.key.exists = FALSE]]
          [] OTHER -> [response |-> NotFound, server |-> server]
    ELSE IF req.url = KeyUrl /\ server.key.exists THEN
        CASE req.verb = "GET" ->
                [response |-> Http(200, JSONStringify(KeyValue(server.key))), server |-> server]
          [] req.verb = "PUT" ->
                [response |-> NoContent, server |-> [server EXCEPT !.key.data = req.body]]
          [] req.verb = "DELETE" ->
                [response |-> NoContent, server |-> [server EXCEPT !.key.exists = FALSE]]
          [] OTHER -> [response |-> NotFound, server |-> server]
    ELSE [response |-> NotFound, server |-> server]

ServerAnswers ==
    /\ pc = "awaiting"
    /\ ~clients[ThisClient].mocked
    /\ LET handled == ServerHandle(wire[1])
       IN  /\ server' = handled.server
           /\ response' = handled.response
           /\ transport' = ApiClient_handle(handled.response)
    /\ pc' = "answered"
    /\ UNCHANGED <<call, log, outcome, clients, sdks, via, wire, suspended, memo, seen>>

OnTestZone == call.serverId = TestServerId /\ call.zoneId = TestZoneId

OnTestKey == OnTestZone /\ call.keyId = TestKeyId

\* the zone and the key as the call that has just resolved leaves them
Observed ==
    IF outcome.state # "resolved" THEN seen
    ELSE CASE call.method = "deleteZone" /\ OnTestZone ->
                [seen EXCEPT !.zone.exists = FALSE, !.key.exists = FALSE]
           [] call.method = "modifyZone" /\ OnTestZone -> [seen EXCEPT !.zone.data = call.payload]
           [] call.method = "updateZoneRRsets" /\ OnTestZone ->
                [seen EXCEPT !.zone.rrsets = call.payload]
           [] call.method = "deleteKey" /\ OnTestKey -> [seen EXCEPT !.key.exists = FALSE]
           [] call.method = "updateKey" /\ OnTestKey -> [seen EXCEPT !.key.data = call.payload]
           [] OTHER -> seen

\* the caller's await returns; the caller goes on to the next call
CallerObserves ==
    /\ pc = "settled"
    /\ seen' = Observed
    /\ Focus(IdleContext)
    /\ UNCHANGED <<clients, sdks, suspended, memo, server>>

InitServer ==
    /\ InitCall
    /\ clients = <<ApiClient_new(ApiKeyA, ApiUrlA)>>
    /\ sdks = <<Facade(1, 1, [apiKey |-> ApiKeyA, apiUrl |-> ApiUrlA])>>
    /\ memo = NoMemo
    /\ server = Fixture
    /\ seen = Fixture

NextServer ==
    \/ getZone \/ deleteZone \/ updateZoneRRsets \/ modifyZone
    \/ getKey \/ updateKey \/ deleteKey
    \/ ServerAnswers \/ NetworkFails \/ MethodSettles \/ CallerObserves

SpecServer == InitServer /\ [][NextServer]_vars

(***************************************************************************)
(* The operation catalog and the readers the properties are stated with.   *)
(***************************************************************************)
GetMethods ==
    {"listServers", "getServer", "listZones", "getZone", "exportZone", "listKeys",
     "getKey", "listMetadata", "getMetadata", "listTSIGKeys", "getTSIGKey",
     "listAutoprimaries", "searchData", "getStatistics"}

PostMethods == {"createZone", "createKey", "createMetadata", "createTSIGKey", "addAutoprimary"}

PutMethods ==
    {"modifyZone", "retrieveSlaveZone", "sendNotify", "rectifyZone", "updateKey",
     "updateMetadata", "updateTSIGKey", "flushCache"}

PatchMethods == {"updateZoneRRsets"}

DeleteMethods == {"deleteZone", "deleteKey", "deleteMetadata", "deleteTSIGKey", "deleteAutoprimary"}

Methods == GetMethods \cup PostMethods \cup PutMethods \cup PatchMethods \cup DeleteMethods

CatalogVerb(method) ==
    CASE method \in GetMethods -> "GET"
      [] method \in PostMethods -> "POST"
      [] method \in PutMethods -> "PUT"
      [] method \in PatchMethods -> "PATCH"
      [] method \in DeleteMethods -> "DELETE"

Called == pc # "idle"

StartsWith(s, prefix) ==
    /\ Len(s) >= Len(prefix)
    /\ SubSeq(s, 1, Len(prefix)) = prefix

DropPrefix(s, prefix) == SubSeq(s, Len(prefix) + 1, Len(s))

Chars(s) == {s[i] : i \in 1..Len(s)}

\* C1: updateMetadata calls put once, on .../metadata/{kind}, with the
\* body {metadata: values} and never the bare values array.
C1_UpdateMetadataWrapsValues ==
    (Called /\ call.method = "updateMetadata") =>
        /\ Len(log) = 1
        /\ log[1].verb = "PUT"
        /\ log[1].path = P_servers \o Slash \o call.serverId \o P_zones \o Slash
                         \o call.zoneId \o P_metadata \o Slash \o call.metadataKind
        /\ log[1].body = <<"{", "metadata", ":">> \o call.payload \o <<"}">>
        /\ log[1].body # call.payload

\* C2: every method calls exactly one ApiClient verb, the one the operation
\* catalog fixes for it, whatever the arguments, and never a second one.
C2_OneFixedVerb ==
    Called =>
        /\ call.method \in Methods
        /\ Len(log) = 1
        /\ log[1].verb = CatalogVerb(call.method)

C2_Witness ==
    /\ pc = "settled"
    /\ call.method = "updateZoneRRsets"
    /\ Len(log) = 1
    /\ log[1].verb = "PATCH"

\* C3: whatever value the ApiClient resolves with, the method resolves with
\* exactly that value.
C3_ResolvedValueUnchanged ==
    (pc = "settled" /\ transport.state = "resolved") =>
        /\ outcome.state = "resolved"
        /\ outcome.value = transport.value

C3_Witness ==
    /\ pc = "settled"
    /\ call.method = "getZone"
    /\ transport.state = "resolved"
    /\ outcome.value = <<"{", "count", ":", "1", ",", "result", ":", "Flushed cache", "}">>

\* C4: when the ApiClient rejects with an error the method rejects with that
\* same error, and the one request it made is the request that was already
\* recorded while the answer was still open, the same whichever way the
\* ApiClient answers.
C4_RejectionPropagates ==
    [][(pc \in {"awaiting", "answered"}) =>
          /\ Len(log) = 1
          /\ log' = log
          /\ call' = call
          /\ (pc = "answered" /\ transport.state = "rejected") =>
                /\ outcome'.state = "rejected"
                /\ outcome'.error = transport.error]_vars

C4_Witness ==
    /\ pc = "settled"
    /\ call.method = "addAutoprimary"
    /\ transport = Rejected("Request failed")
    /\ outcome = Rejected("Request failed")
    /\ Len(log) = 1

(***************************************************************************)
(* Readers of a constructed path: what a server makes of the query string. *)
(***************************************************************************)
HexSet == {HexDigits[i] : i \in 1..16}

HexValue(c) == CHOOSE i \in 0..15 : HexDigits[i + 1] = c

\* the character of a code point, among the characters of the model
CharOf(cp) ==
    IF \E c \in Symbols : CodePoint(c) = cp
    THEN CHOOSE c \in Symbols : CodePoint(c) = cp
    ELSE "U+FFFD"

IsEscape(s) == Len(s) >= 3 /\ s[1] = "%" /\ s[2] \in HexSet /\ s[3] \in HexSet

EscapeByte(s) == 16 * HexValue(s[2]) + HexValue(s[3])

\* percent-decoding (decodeURIComponent); a broken escape yields MALFORMED
RECURSIVE UriDecode(_)
UriDecode(s) ==
    IF s = <<>> THEN <<>>
    ELSE IF Head(s) # "%" THEN <<Head(s)>> \o UriDecode(Tail(s))
    ELSE IF ~IsEscape(s) THEN <<"MALFORMED">>
    ELSE IF EscapeByte(s) < 128
         THEN <<CharOf(EscapeByte(s))>> \o UriDecode(SubSeq(s, 4, Len(s)))
    ELSE IF EscapeByte(s) >= 192 /\ EscapeByte(s) < 224 /\ IsEscape(SubSeq(s, 4, Len(s)))
         THEN <<CharOf((EscapeByte(s) - 192) * 64 + (EscapeByte(SubSeq(s, 4, Len(s))) - 128))>>
              \o UriDecode(SubSeq(s, 7, Len(s)))
    ELSE <<"MALFORMED">>

\* form decoding: + is a space, then percent-decoding
FormDecode(s) == UriDecode([i \in 1..Len(s) |-> IF s[i] = "+" THEN " " ELSE s[i]])

IndexOf(s, c) ==
    IF c \in Chars(s)
    THEN CHOOSE i \in 1..Len(s) : s[i] = c /\ \A j \in 1..(i - 1) : s[j] # c
    ELSE 0

RECURSIVE Split(_, _)
Split(s, c) ==
    IF IndexOf(s, c) = 0 THEN <<s>>
    ELSE <<SubSeq(s, 1, IndexOf(s, c) - 1)>> \o Split(SubSeq(s, IndexOf(s, c) + 1, Len(s)), c)

\* the name of a name=value parameter
ParamName(param) ==
    IF IndexOf(param, "=") = 0 THEN param ELSE SubSeq(param, 1, IndexOf(param, "=") - 1)

Count(s, c) == Cardinality({i \in 1..Len(s) : s[i] = c})

IsDecimal(s) == s # <<>> /\ Chars(s) \subseteq Digits

DigitValue(c) == CHOOSE i \in 0..9 : DecimalDigits[i + 1] = c

RECURSIVE DecimalValue(_)
DecimalValue(s) ==
    IF Len(s) = 1 THEN DigitValue(s[1])
    ELSE 10 * DecimalValue(SubSeq(s, 1, Len(s) - 1)) + DigitValue(s[Len(s)])

\* characters that can stand raw in a value produced by encodeURIComponent
UriValueChars == Letters \cup Digits \cup {"-", "_", ".", "!", "~", "*", "'", "(", ")", "%"}

\* characters that can stand raw in a value produced by URLSearchParams
FormValueChars == Letters \cup Digits \cup {"*", "-", ".", "_", "%", "+"}

FlushPrefix ==
    P_servers \o Slash \o call.serverId
    \o <<"/","c","a","c","h","e","/","f","l","u","s","h","?","d","o","m","a","i","n","=">>

FlushValue == DropPrefix(log[1].path, FlushPrefix)

SearchPrefix ==
    P_servers \o Slash \o call.serverId
    \o <<"/","s","e","a","r","c","h","-","d","a","t","a","?">>

SearchParams == Split(DropPrefix(log[1].path, SearchPrefix), "&")

SearchValue == DropPrefix(SearchParams[1], <<"q", "=">>)

\* C5: flushCache calls put on /servers/{serverId}/cache/flush?domain= followed
\* by the percent-encoded domain, and the body is exactly null.
C5_FlushCacheRequest ==
    (Called /\ call.method = "flushCache") =>
        /\ Len(log) = 1
        /\ log[1].verb = "PUT"
        /\ log[1].body = JNull
        /\ log[1].body \notin {<<"{", "}">>, <<"">>, call.domain}
        /\ StartsWith(log[1].path, FlushPrefix)
        /\ Chars(FlushValue) \subseteq UriValueChars
        /\ UriDecode(FlushValue) = call.domain

C5_Witness ==
    /\ pc = "settled"
    /\ call.method = "flushCache"
    /\ call.domain = <<"a", " ">>
    /\ log[1].path = <<"/","s","e","r","v","e","r","s","/","l","o","c","a","l","h","o","s","t",
                       "/","c","a","c","h","e","/","f","l","u","s","h","?",
                       "d","o","m","a","i","n","=","a","%","2","0">>
    /\ log[1].body = JNull

\* C6: searchData calls get on /servers/{serverId}/search-data? followed by
\* exactly the three parameters q, max and object_type in that order; max is
\* 100 when maxResults is left out and object_type is all when objectType is.
C6_SearchDataRequest ==
    (Called /\ call.method = "searchData") =>
        /\ Len(log) = 1
        /\ log[1].verb = "GET"
        /\ log[1].body = NoBody
        /\ StartsWith(log[1].path, SearchPrefix)
        /\ Len(SearchParams) = 3
        /\ StartsWith(SearchParams[1], <<"q", "=">>)
        /\ FormDecode(SearchValue) = call.query
        /\ StartsWith(SearchParams[2], <<"m", "a", "x", "=">>)
        /\ IsDecimal(DropPrefix(SearchParams[2], <<"m", "a", "x", "=">>))
        /\ DecimalValue(DropPrefix(SearchParams[2], <<"m", "a", "x", "=">>))
              = (IF call.maxResults.set THEN call.maxResults.v ELSE 100)
        /\ SearchParams[3] = <<"o","b","j","e","c","t","_","t","y","p","e","=">>
              \o (IF call.objectType.set THEN call.objectType.v ELSE <<"a", "l", "l">>)

C6_Witness ==
    /\ pc = "settled"
    /\ call.method = "searchData"
    /\ ~call.maxResults.set
    /\ ~call.objectType.set
    /\ log[1].path = <<"/","s","e","r","v","e","r","s","/","l","o","c","a","l","h","o","s","t",
                       "/","s","e","a","r","c","h","-","d","a","t","a","?","q","=","a","*",
                       "&","m","a","x","=","1","0","0",
                       "&","o","b","j","e","c","t","_","t","y","p","e","=","a","l","l">>

StatisticsBase ==
    P_servers \o Slash \o call.serverId \o <<"/","s","t","a","t","i","s","t","i","c","s">>

StatisticsQuery == DropPrefix(log[1].path, StatisticsBase)

\* the parameters a server reads from the query string of getStatistics
StatisticsParams ==
    IF StatisticsQuery = <<>> THEN <<>> ELSE Split(Tail(StatisticsQuery), "&")

StatisticsParamNames == {ParamName(StatisticsParams[i]) : i \in 1..Len(StatisticsParams)}

IncluderingsSuffix ==
    IF call.includerings.set
    THEN <<"&","i","n","c","l","u","d","e","r","i","n","g","s","=">>
         \o (IF call.includerings.v THEN <<"t","r","u","e">> ELSE <<"f","a","l","s","e">>)
    ELSE <<>>

\* C7: getStatistics calls get on /servers/{serverId}/statistics followed by a
\* query string in which the parameter statistic occurs only when
\* options.statistic is set and the parameter includerings occurs only when
\* options.includerings is set (false included); with neither set nothing
\* follows the path; with both set (statistic holding a value) it is
\* ?statistic=..&includerings=.. in that order.
C7_StatisticsQueryString ==
    (Called /\ call.method = "getStatistics") =>
        /\ Len(log) = 1
        /\ log[1].verb = "GET"
        /\ StartsWith(log[1].path, StatisticsBase)
        /\ StatisticsQuery # <<>> => Head(StatisticsQuery) = "?"
        /\ <<"s","t","a","t","i","s","t","i","c">> \in StatisticsParamNames
              => call.statistic.set
        /\ <<"i","n","c","l","u","d","e","r","i","n","g","s">> \in StatisticsParamNames
              <=> call.includerings.set
        /\ (~call.statistic.set /\ ~call.includerings.set) => StatisticsQuery = <<>>
        /\ (Truthy(call.statistic) /\ call.includerings.set) =>
              StatisticsQuery = <<"?","s","t","a","t","i","s","t","i","c","=">>
                                \o call.statistic.v \o IncluderingsSuffix

\* the text standing for the statistic value in the path of getStatistics
StatisticValue ==
    SubSeq(StatisticsQuery, Len(<<"?","s","t","a","t","i","s","t","i","c","=">>) + 1,
           Len(StatisticsQuery) - Len(IncluderingsSuffix))

\* C10: every query-parameter value in a constructed path is percent-encoded;
\* the statistic value of getStatistics too, so that it reads back as the
\* value given and adds, splits or truncates no parameter.
C10_QueryValuesEncoded ==
    /\ (Called /\ call.method = "flushCache") =>
            /\ Chars(FlushValue) \subseteq UriValueChars
            /\ UriDecode(FlushValue) = call.domain
    /\ (Called /\ call.method = "searchData") =>
            /\ Len(SearchParams) = 3
            /\ Chars(SearchValue) \subseteq FormValueChars
            /\ FormDecode(SearchValue) = call.query
    /\ (Called /\ call.method = "getStatistics" /\ Truthy(call.statistic)) =>
            /\ StartsWith(StatisticsQuery, <<"?","s","t","a","t","i","s","t","i","c","=">>)
            /\ Len(StatisticsParams) = 1 + (IF call.includerings.set THEN 1 ELSE 0)
            /\ Chars(StatisticValue) \subseteq UriValueChars
            /\ UriDecode(StatisticValue) = call.statistic.v

\* characters that need no percent-encoding when read strictly: letters,
\* digits and - _ . ~
StrictValueChars == Letters \cup Digits \cup {"-", "_", ".", "~", "%"}

\* C8 as claimed: in the q of searchData and the domain of flushCache every
\* character that requires percent-encoding, the * and the space included,
\* stands percent-encoded and none stands raw.
C8_AllPercentEncoded ==
    /\ (Called /\ call.method = "flushCache") =>
            /\ Chars(FlushValue) \subseteq StrictValueChars
            /\ UriDecode(FlushValue) = call.domain
    /\ (Called /\ call.method = "searchData") =>
            /\ Chars(SearchValue) \subseteq StrictValueChars
            /\ UriDecode(SearchValue) = call.query

\* C8 amended: every character other than letters, digits and * - . _ (for
\* flushCache also ! ~ ' ( )) is encoded; flushCache writes it as %XX,
\* searchData writes it as %XX except the space, which it writes as +; the *
\* stays raw in both; the value reads back as the caller's text.
C8_EncodedExceptStar ==
    /\ (Called /\ call.method = "flushCache") =>
            /\ Chars(FlushValue) \subseteq UriValueChars
            /\ UriDecode(FlushValue) = call.domain
            /\ Count(FlushValue, "*") = Count(call.domain, "*")
            /\ Count(FlushValue, "+") = 0
    /\ (Called /\ call.method = "searchData") =>
            /\ Chars(SearchValue) \subseteq FormValueChars
            /\ FormDecode(SearchValue) = call.query
            /\ Count(SearchValue, "*") = Count(call.query, "*")
            /\ Count(SearchValue, "+") = Count(call.query, " ")

C8_Witness ==
    /\ pc = "settled"
    /\ call.method = "searchData"
    /\ call.query = <<"*", " ">>
    /\ SearchValue = <<"*", "+">>

CatalogServer == P_servers \o Slash \o call.serverId

CatalogZone == CatalogServer \o P_zones \o Slash \o call.zoneId

CatalogTsigKeys == CatalogServer \o P_tsigkeys

\* the path ends in the decimal numeral of the key id the caller gave
EndsWithKeyId(path, prefix) ==
    /\ StartsWith(path, prefix)
    /\ IsDecimal(DropPrefix(path, prefix))
    /\ DecimalValue(DropPrefix(path, prefix)) = call.keyId
    /\ (Len(DropPrefix(path, prefix)) = 1 \/ DropPrefix(path, prefix)[1] # "0")

\* the path the catalog gives the call, identifiers as the caller wrote them
CatalogPathHolds(m, path) ==
    CASE m = "listServers" -> path = P_servers
      [] m = "getServer" -> path = CatalogServer
      [] m \in {"listZones", "createZone"} -> path = CatalogServer \o P_zones
      [] m \in {"getZone", "deleteZone", "updateZoneRRsets", "modifyZone"} -> path = CatalogZone
      [] m = "retrieveSlaveZone" -> path = CatalogZone \o P_axfrRetrieve
      [] m = "sendNotify" -> path = CatalogZone \o P_notify
      [] m = "exportZone" -> path = CatalogZone \o P_export
      [] m = "rectifyZone" -> path = CatalogZone \o P_rectify
      [] m \in {"listKeys", "createKey"} -> path = CatalogZone \o P_cryptokeys
      [] m \in {"getKey", "updateKey", "deleteKey"} ->
            EndsWithKeyId(path, CatalogZone \o P_cryptokeys \o Slash)
      [] m \in {"listMetadata", "createMetadata"} -> path = CatalogZone \o P_metadata
      [] m \in {"getMetadata", "updateMetadata", "deleteMetadata"} ->
            path = CatalogZone \o P_metadata \o Slash \o call.metadataKind
      [] m \in {"listTSIGKeys", "createTSIGKey"} -> path = CatalogTsigKeys
      [] m \in {"getTSIGKey", "updateTSIGKey", "deleteTSIGKey"} ->
            path = CatalogTsigKeys \o Slash \o call.tsigKeyId
      [] m \in {"listAutoprimaries", "addAutoprimary"} -> path = CatalogServer \o P_autoprimaries
      [] m = "deleteAutoprimary" ->
            path = CatalogServer \o P_autoprimaries \o Slash \o call.ip \o Slash \o call.nameserver
      [] m = "searchData" -> StartsWith(path, CatalogServer \o P_searchData)
      [] m = "getStatistics" -> StartsWith(path, CatalogServer \o P_statistics)
      [] m = "flushCache" -> StartsWith(path, CatalogServer \o P_cacheFlush)

\* C9: the identifiers in path-segment position (server id, zone id, key id,
\* metadata kind, TSIG key id, autoprimary ip and nameserver) stand in the
\* path exactly as the caller gave them, a trailing dot included.
C9_PathSegmentsVerbatim ==
    Called => (Len(log) = 1 /\ CatalogPathHolds(call.method, log[1].path))

C9_Witness ==
    /\ pc = "settled"
    /\ call.method = "getKey"
    /\ call.zoneId = <<" ","a","."," ">>
    /\ call.keyId = 123
    /\ log[1].path = <<"/","s","e","r","v","e","r","s","/","S","r","v"," ","1","/","z","o","n","e","s","/"," ","a","."," ","/","c","r","y","p","t","o","k","e","y","s","/","1","2","3">>

(***************************************************************************)
(* The facade and the HTTP exchange.                                       *)
(***************************************************************************)
InFlight == pc \in {"awaiting", "answered", "settled"}

Answered == pc \in {"answered", "settled"}

\* C11: each method call issues exactly one ApiClient call and exactly one
\* HTTP request, never none and never a second one, whether the exchange
\* ends in success, in an HTTP error or in a network failure.
C11_ExactlyOneRequest ==
    /\ pc = "idle" => (Len(log) = 0 /\ Len(wire) = 0)
    /\ InFlight =>
          /\ Len(log) = 1
          /\ Len(wire) = 1
          /\ wire[1].verb = log[1].verb
          /\ wire[1].body = log[1].body

C11_Witness ==
    /\ pc = "settled"
    /\ call.method = "deleteZone"
    /\ response.origin = "network"
    /\ outcome.state = "rejected"
    /\ Len(wire) = 1

\* C12: constructing a facade creates exactly one ApiClient and one
\* instance of each of the nine modules, and all nine hold that ApiClient.
C12_OneClientNineModules ==
    /\ Len(clients) = Len(sdks)
    /\ \A i \in 1..Len(sdks) :
          /\ ModuleNames \subseteq DOMAIN sdks[i]
          /\ sdks[i].client \in 1..Len(clients)
          /\ \A m \in ModuleNames : sdks[i][m] = sdks[i].client
          /\ \A j \in 1..Len(sdks) : sdks[j].client = sdks[i].client => j = i

C12_Witness ==
    /\ Len(sdks) = 2
    /\ Len(clients) = 2
    /\ sdks[1].cache = 1
    /\ sdks[2].cache = 2
    /\ sdks[2].servers = 2

\* C13: two facades are isolated.  Every request made through a facade
\* carries the credential and the base URL that facade was constructed
\* with, and constructing another facade or calling through it changes
\* neither a facade that exists nor the call in progress.
C13_FacadesIsolated ==
    /\ [](InFlight =>
            /\ wire[1].credential = sdks[via].args.apiKey
            /\ StartsWith(wire[1].url, StripTrailingSlashes(sdks[via].args.apiUrl) \o P_servers))
    /\ [][/\ \A i \in 1..Len(sdks) :
                /\ sdks'[i] = sdks[i]
                /\ clients'[sdks[i].client] = clients[sdks[i].client]
          /\ Len(sdks') # Len(sdks) =>
                UNCHANGED <<pc, call, log, transport, outcome, via, wire, response>>]_vars

C13_Witness ==
    /\ Len(sdks) = 2
    /\ sdks[1].args = [apiKey |-> ApiKeyA, apiUrl |-> ApiUrlA]
    /\ sdks[2].args = [apiKey |-> ApiKeyB, apiUrl |-> ApiUrlB]
    /\ via = 1
    /\ pc = "settled"
    /\ wire[1].credential = ApiKeyA
    /\ StartsWith(wire[1].url, <<"h","t","t","p",":","/","/","l","o","c","a","l","h","o","s","t">>)

\* C14: the credential, the base endpoint and the ApiClient of every module
\* are those of the construction, after any calls, successful or failing.
C14_ConfigurationFixed ==
    \A i \in 1..Len(sdks) : \A m \in ModuleNames :
        /\ sdks[i][m] \in 1..Len(clients)
        /\ clients[sdks[i][m]].apiKey = sdks[i].args.apiKey
        /\ clients[sdks[i][m]].baseUrl = sdks[i].args.apiUrl

C14_Witness ==
    /\ Len(sdks) = 2
    /\ via = 2
    /\ pc = "settled"
    /\ outcome.state = "rejected"
    /\ sdks[2].args.apiUrl = ApiUrlB
    /\ clients[sdks[2].zones].baseUrl = ApiUrlB
    /\ clients[sdks[1].zones].baseUrl = ApiUrlA

HttpFailure == response.origin = "http" /\ response.status \notin 200..299

NetworkFailure == response.origin = "network"

ParseFailure ==
    /\ response.origin = "http"
    /\ response.status \in 200..299
    /\ response.text \in {T_plain, T_truncated}

\* C17: a non-success HTTP status, a network failure and a success response
\* whose non-empty body is no JSON all fail the call with the same kind of
\* error; the HTTP error carries the status and the raw body, the network
\* failure no status; the call never resolves and the caller sees the
\* error the ApiClient raised.
C17_SingleErrorKind ==
    (Answered /\ (HttpFailure \/ NetworkFailure \/ ParseFailure)) =>
        /\ transport.state = "rejected"
        /\ transport.kind = "Error"
        /\ transport.value = <<>>
        /\ HttpFailure => (transport.status = response.status /\ transport.body = response.text)
        /\ NetworkFailure => (transport.status = 0 /\ transport.cause = response.cause)
        /\ pc = "settled" =>
              /\ outcome.state = "rejected"
              /\ outcome.kind = transport.kind
              /\ outcome.status = transport.status
              /\ outcome.body = transport.body
              /\ outcome.cause = transport.cause

C17_Witness ==
    /\ pc = "settled"
    /\ ParseFailure
    /\ response.text = T_truncated
    /\ outcome.state = "rejected"
    /\ outcome.kind = "Error"

\* C18: a method call ends either resolved or rejected, never both: a
\* resolved call carries no error, a rejected call no value, and the call
\* never resolves when the ApiClient rejected.
C18_ResolvedOrRejected ==
    /\ pc \in {"idle", "awaiting", "answered"} => outcome.state = "pending"
    /\ pc = "settled" =>
          /\ outcome.state \in {"resolved", "rejected"}
          /\ outcome.state = "resolved" => (outcome.error = "" /\ transport.state = "resolved")
          /\ outcome.state = "rejected" => (outcome.value = <<>> /\ transport.state = "rejected")
          /\ transport.state = "rejected" => outcome.state = "rejected"

C18_Witness ==
    /\ pc = "settled"
    /\ call.method = "createZone"
    /\ transport.state = "rejected"
    /\ outcome.state = "rejected"
    /\ outcome.value = <<>>

EmptySuccess ==
    /\ response.origin = "http"
    /\ response.status \in 200..299
    /\ response.text = <<>>

\* C19: a success status with an empty body resolves the call with no
\* value and is no decode failure, for the delete operations and for the
\* update operations answered without a body.
C19_EmptyBodyResolves ==
    (Answered /\ EmptySuccess) =>
        /\ transport.state = "resolved"
        /\ transport.value \in {JNull, JUndefined}
        /\ pc = "settled" =>
              /\ outcome.state = "resolved"
              /\ outcome.value \in {JNull, JUndefined}
              /\ outcome.error = ""

C19_Witness ==
    /\ pc = "settled"
    /\ call.method = "modifyZone"
    /\ response.status = 204
    /\ response.text = <<>>
    /\ outcome.state = "resolved"

Range(seq) == {seq[i] : i \in 1..Len(seq)}

\* the request a call of updateZoneRRsets or modifyZone makes on its own
AloneRequest(c) ==
    [verb |-> IF c.method = "updateZoneRRsets" THEN "PATCH" ELSE "PUT",
     path |-> P_servers \o Slash \o c.serverId \o P_zones \o Slash \o c.zoneId,
     body |-> c.payload]

AsAlone(c) ==
    c.pc # "idle" =>
        /\ c.call.method \in {"updateZoneRRsets", "modifyZone"}
        /\ c.log = <<AloneRequest(c.call)>>
        /\ c.pc = "settled" => c.outcome = c.transport
        /\ c.pc # "settled" => c.outcome.state = "pending"

\* C15: calls in flight together on the same modules are independent.
\* The request and the outcome of each are those of the call on its own; a
\* call is entered whatever else is in flight, with no lock and no order;
\* no step of one call, its failure included, changes another call.
C15_ConcurrentCallsIndependent ==
    /\ [](AsAlone(Context) /\ \A i \in 1..Len(suspended) : AsAlone(suspended[i]))
    /\ [](pc = "idle" => (ENABLED updateZoneRRsets /\ ENABLED modifyZone))
    /\ [][\A i \in 1..Len(suspended) :
             suspended[i] \in Range(suspended') \/ Context' = suspended[i]]_vars

C15_Witness ==
    /\ Len(suspended) = 1
    /\ suspended[1].pc = "awaiting"
    /\ suspended[1].call.method = "updateZoneRRsets"
    /\ pc = "settled"
    /\ call.method = "modifyZone"
    /\ call.zoneId = suspended[1].call.zoneId
    /\ outcome.state = "rejected"

\* C16: the request of a call is a function of the call's arguments alone.
\* The same method with the same arguments makes the same request after
\* two different histories of earlier calls, failed ones included.
C16_RequestFromArgumentsOnly ==
    (memo.set /\ pc # "idle" /\ call = memo.call) => log = <<memo.request>>

C16_Witness ==
    /\ memo.set
    /\ memo.failed
    /\ memo.others
    /\ pc = "awaiting"
    /\ call = memo.call
    /\ call.method = "getStatistics"
    /\ log = <<memo.request>>

ListMethods ==
    {"listServers", "listZones", "listKeys", "listMetadata", "listTSIGKeys",
     "listAutoprimaries", "searchData", "getStatistics"}

\* C23: when the ApiClient resolves with an empty list, a list-returning
\* method resolves with the empty list: it does not reject and it does not
\* resolve with null or undefined.
C23_EmptyListResolves ==
    (pc = "settled" /\ call.method \in ListMethods /\ transport = Resolved(<<"[", "]">>)) =>
        /\ outcome.state = "resolved"
        /\ outcome.value = <<"[", "]">>
        /\ outcome.value \notin {JNull, JUndefined}
        /\ outcome.error = ""

C23_Witness ==
    /\ pc = "settled"
    /\ call.method = "searchData"
    /\ call.query = <<"a", "*">>
    /\ transport.value = <<"[", "]">>
    /\ outcome.value = <<"[", "]">>

\* the create and update operations that take a payload
PayloadMethods == (PostMethods \cup PutMethods \cup PatchMethods) \ {"flushCache"}

StatisticsPath == P_servers \o Slash \o call.serverId \o <<"/","s","t","a","t","i","s","t","i","c","s">>

\* C28: getStatistics leaves an empty options.statistic out of the query
\* string, as if it were not set, and writes an options.includerings of
\* false as includerings=false; with statistic "" the path is the path of
\* the call without a statistic.
C28_EmptyStatisticOmitted ==
    (Called /\ call.method = "getStatistics" /\ (~call.statistic.set \/ call.statistic.v = <<>>)) =>
        log[1].path =
            StatisticsPath
            \o (IF ~call.includerings.set THEN <<>>
                ELSE IF call.includerings.v
                THEN <<"?","i","n","c","l","u","d","e","r","i","n","g","s","=","t","r","u","e">>
                ELSE <<"?","i","n","c","l","u","d","e","r","i","n","g","s","=","f","a","l","s","e">>)

C28_Witness ==
    /\ pc = "settled"
    /\ call.method = "getStatistics"
    /\ call.statistic = Some(<<>>)
    /\ call.includerings = Some(FALSE)
    /\ log[1].path = StatisticsPath
                     \o <<"?","i","n","c","l","u","d","e","r","i","n","g","s","=","f","a","l","s","e">>

\* the number of places where sub occurs in s
CountSub(s, sub) ==
    Cardinality({i \in 1..(Len(s) - Len(sub) + 1) : SubSeq(s, i, i + Len(sub) - 1) = sub})

\* C29: searchData writes a space of q as +, flushCache writes a space of
\* domain as %20, and both leave * as it is.
C29_SpaceAndStar ==
    /\ (Called /\ call.method = "searchData") =>
          /\ Count(SearchValue, "+") = Count(call.query, " ")
          /\ CountSub(SearchValue, <<"%", "2", "0">>) = 0
          /\ Count(SearchValue, " ") = 0
          /\ Count(SearchValue, "*") = Count(call.query, "*")
    /\ (Called /\ call.method = "flushCache") =>
          /\ CountSub(FlushValue, <<"%", "2", "0">>) = Count(call.domain, " ")
          /\ Count(FlushValue, "+") = 0
          /\ Count(FlushValue, " ") = 0
          /\ Count(FlushValue, "*") = Count(call.domain, "*")

C29_Witness ==
    /\ pc = "settled"
    /\ call.method = "searchData"
    /\ call.query = <<" ", "*">>
    /\ SearchValue = <<"+", "*">>

(***************************************************************************)
(* Identifiers that hold a slash.                                          *)
(***************************************************************************)
ZonesSuffix == <<"/","z","o","n","e","s">>

ExportSuffix == <<"/","e","x","p","o","r","t">>

\* C30: identifiers are put into the path as they are, so an identifier
\* holding a slash makes one operation issue the request of another:
\* getServer(S/zones) issues the request of listZones(S), and
\* getZone(S, Z/export) the request of exportZone(S, Z).
C30_PathsNotInjective ==
    (memo.set /\ Called) =>
        /\ (/\ memo.call.method = "listZones"
            /\ call.method = "getServer"
            /\ call.serverId = memo.call.serverId \o ZonesSuffix) => log = <<memo.request>>
        /\ (/\ memo.call.method = "exportZone"
            /\ call.method = "getZone"
            /\ call.serverId = memo.call.serverId
            /\ call.zoneId = memo.call.zoneId \o ExportSuffix) => log = <<memo.request>>

C30_Witness ==
    /\ memo.set
    /\ memo.call.method = "exportZone"
    /\ pc = "settled"
    /\ call.method = "getZone"
    /\ call.zoneId = memo.call.zoneId \o ExportSuffix
    /\ call # memo.call
    /\ log = <<memo.request>>

(***************************************************************************)
(* The configuration argument of the README.                               *)
(***************************************************************************)
\* C25: the facade constructor takes a third argument with custom headers
\* and a timeout; the ApiClient it constructs holds them and the headers
\* are sent on the requests.
C25_ConfigurationHonoured ==
    \A i \in 1..Len(sdks) :
        "config" \in DOMAIN sdks[i].args =>
            /\ "headers" \in DOMAIN clients[sdks[i].client]
            /\ "timeout" \in DOMAIN clients[sdks[i].client]
            /\ (InFlight /\ via = i) => "headers" \in DOMAIN wire[1]

(***************************************************************************)
(* Settlement.                                                             *)
(***************************************************************************)
\* C27: once the ApiClient's promise has resolved or rejected, the
\* method's promise resolves or rejects and does not stay pending; after
\* that the method calls the ApiClient no more.
C27_EventuallySettles ==
    /\ (pc = "answered" /\ transport.state # "pending") ~> (outcome.state # "pending")
    /\ [][(pc \in {"answered", "settled"}) => (log' = log \/ pc' = "idle")]_vars

C27_Witness ==
    /\ pc = "settled"
    /\ call.method = "rectifyZone"
    /\ transport.state = "rejected"
    /\ outcome.state = "rejected"
    /\ Len(log) = 1

(***************************************************************************)
(* Calls one after another against the server.                             *)
(***************************************************************************)
ReadsTestZone == call.method = "getZone" /\ OnTestZone

ReadsTestKey == call.method = "getKey" /\ OnTestKey

Surfaced ==
    /\ outcome.state = "rejected"
    /\ outcome = transport
    /\ response.origin = "http" =>
          /\ response.status \notin 200..299
          /\ outcome.status = response.status
          /\ outcome.body = response.text

\* C22: after deleteZone has resolved, getZone of the same zone rejects,
\* and after deleteKey has resolved, getKey of the same key rejects; the
\* rejection is the failure the server answered with, status and body
\* as they came.
C22_DeletedThenGetRejects ==
    /\ (pc = "settled" /\ ReadsTestZone /\ ~seen.zone.exists) => Surfaced
    /\ (pc = "settled" /\ ReadsTestKey /\ ~seen.key.exists) => Surfaced

C22_Witness ==
    /\ pc = "settled"
    /\ ReadsTestZone
    /\ ~seen.zone.exists
    /\ outcome.state = "rejected"
    /\ outcome.status = 404
    /\ outcome.body = T_object

====
